---- MODULE Spec2Model ----
(***************************************************************************)
(* IdentityClient of packages/backend/src/index.ts: verification of        *)
(* Backstage identity tokens against the issuer's published key set.       *)
(*                                                                         *)
(* One IdentityClient instance (keyStore, keyStoreUpdated) is shared by    *)
(* the requests in flight.  JavaScript runs each callback to completion,   *)
(* so a request is a sequence of steps separated by its awaits:            *)
(*   Authenticate  lines 96, 176-188, 224-237, 267-269 (up to the fetch)   *)
(*   Respond       the issuer answers the GET of line 251                  *)
(*   Refresh       lines 253-261 and 270-273 (the rest of the refresh)     *)
(*   Finish        lines 239, 186-203 and 97-99                            *)
(***************************************************************************)
EXTENDS Naturals, Sequences

\* ------------------------------------------------------------------ bounds

\* The clock (Date.now() / 1000, in whole seconds) runs from 1 to MaxTime.
MaxTime == 2

\* Longest authorization header of SpecHdr, in lexical units.
MaxHdrLen == 4

\* The requests that can be in flight together.
Calls == {"c1", "c2"}

\* ------------------------------------------------------------------ keys

Kids == {"k1", "k2"}

\* The public key the issuer generated under a kid.
KeyOf(kid) == [kid |-> kid, x |-> kid]

AllKeys == {KeyOf(k) : k \in Kids}

\* No key: keyStore.get found nothing (undefined, null after line 224's type).
NoKey == [kid |-> "-", x |-> "-"]

\* JWKS.KeyStore.get({ kid }): the key of the store with that kid.
Get(store, kid) ==
  IF \E k \in store : k.kid = kid
  THEN CHOOSE k \in store : k.kid = kid
  ELSE NoKey

\* ------------------------------------------------------------------ tokens

Issuer == "issuer"

Subs == {"u1"}
Sigs == Kids \cup {"tampered"}
Auds == {"backstage", "other"}
Isss == {Issuer, "evil"}
Algs == {"ES256", "HS256"}
Iats == 0 .. (MaxTime + 1)
Exps == {MaxTime, MaxTime + 1}

\* A well-formed compact JWT: its header (kid, alg), its payload
\* (sub, iat, aud, iss, exp) and sig, the key its signature was made with.
Jwts ==
  [kid : Kids, alg : Algs, sub : Subs, iat : Iats, aud : Auds, iss : Isss,
   exp : Exps, sig : Sigs]

\* The defects a token can carry against lines 192-196 and the key it names.
Defects(t) ==
  {d \in {"alg", "aud", "iss", "exp", "sig"} :
     \/ d = "alg" /\ t.alg # "ES256"
     \/ d = "aud" /\ t.aud # "backstage"
     \/ d = "iss" /\ t.iss # Issuer
     \/ d = "exp" /\ t.exp <= MaxTime
     \/ d = "sig" /\ t.sig # t.kid}

\* The tokens presented to the client, with any defects.
Tokens == Jwts

\* The tokens without a defect.
SoundTokens == {t \in Jwts : Defects(t) = {}}

\* ------------------------------------------------------------------ headers

\* A header string is a sequence of lexical units: a scheme word, one
\* whitespace character, a well-formed JWT, or other non-whitespace text.
\* Adjacent non-whitespace units read as one run of characters.
Word(w) == [u |-> w]
JwtUnit(t) == [u |-> "jwt", jwt |-> t]
Ws == Word(" ")
Junk == Word("junk")

IsWs(x) == x.u = " "

\* /Bearer/i: the scheme word in any letter case.
IsBearer(x) == x.u \in {"Bearer", "bearer"}

\* A header value: undefined, a string, or a value that is no string.
Undefined == [type |-> "undefined", s |-> <<>>]
NonString == [type |-> "object", s |-> <<>>]
Str(s) == [type |-> "string", s |-> s]

\* null, what getBearerToken returns when it finds no token.  The capture
\* group \S+ is never empty, so the empty string stands for null alone.
NullToken == <<>>

SetMin(S) == CHOOSE m \in S : \A n \in S : m <= n
SetMax(S) == CHOOSE m \in S : \A n \in S : n <= m

\* The positions where /Bearer\s+(\S+)/i matches in s: the scheme word, at
\* least one whitespace, then at least one non-whitespace character.  The
\* expression is not anchored, so a match may start anywhere.
MatchStarts(s) ==
  {i \in 1 .. Len(s) :
     /\ IsBearer(s[i])
     /\ i + 1 <= Len(s)
     /\ IsWs(s[i + 1])
     /\ \E j \in (i + 2) .. Len(s) : ~IsWs(s[j])}

\* matches[1] of the leftmost match: the longest run of non-whitespace
\* after the whitespace that follows the scheme.
Capture(s) ==
  LET i == SetMin(MatchStarts(s))
      j == SetMin({n \in (i + 2) .. Len(s) : ~IsWs(s[n])})
      k == SetMax({n \in j .. Len(s) : \A m \in j .. n : ~IsWs(s[m])})
  IN  SubSeq(s, j, k)

\* IdentityClient.getBearerToken
getBearerToken(authorizationHeader) ==
  IF authorizationHeader.type # "string" THEN NullToken
  ELSE IF MatchStarts(authorizationHeader.s) = {} THEN NullToken
  ELSE Capture(authorizationHeader.s)

\* Decodable as it would be if JWT.decode ignored what follows the token.
DecodableLax(raw) == raw[1].u = "jwt"

\* JWT.decode(rawJwtToken, { complete: true }) throws unless the string is
\* one well-formed compact JWT.
Decodable(raw) == Len(raw) = 1 /\ raw[1].u = "jwt"

\* The header and payload JWT.decode returns, signature unchecked.
Decode(raw) == raw[1].jwt

\* Verify as it would be if the signature went unchecked.
VerifyNoSignature(raw, key, now) ==
  LET t == raw[1].jwt
  IN  /\ t.alg = "ES256"
      /\ t.aud = "backstage"
      /\ t.iss = Issuer
      /\ t.exp > now

\* Verify as it would be without the audience option of line 194.
VerifyAnyAudience(raw, key, now) ==
  LET t == raw[1].jwt
  IN  /\ t.alg = "ES256"
      /\ t.sig = key.x
      /\ t.iss = Issuer
      /\ t.exp > now

\* JWT.IdToken.verify(token, key, { algorithms: ['ES256'], audience:
\* 'backstage', issuer }): the signature under the given key, the
\* algorithm, the audience, the issuer and the expiry at time now.
Verify(raw, key, now) ==
  LET t == Decode(raw)
  IN  /\ t.alg = "ES256"
      /\ t.sig = key.x
      /\ t.aud = "backstage"
      /\ t.iss = Issuer
      /\ t.exp > now

\* ------------------------------------------------------------------ results

\* What authenticate settles with: the BackstageIdentity of lines 199-202,
\* or the error thrown, named by its class.
NoResult == [kind |-> "none", id |-> "-", idToken |-> NullToken]
Identity(sub, raw) == [kind |-> "identity", id |-> sub, idToken |-> raw]
Failure(e) == [kind |-> e, id |-> "-", idToken |-> NullToken]

\* Outcome as it would be with the identity taken from the wrong claim.
OutcomeWrongId(raw, key, time) ==
  IF key = NoKey THEN Failure("UnknownKey")
  ELSE IF ~Verify(raw, key, time) THEN Failure("InvalidToken")
  ELSE Identity(Decode(raw).iss, raw)

\* Lines 186-203: no key throws, a failed verification throws, otherwise
\* the identity of the verified token.
Outcome(raw, key, time) ==
  IF key = NoKey THEN Failure("UnknownKey")
  ELSE IF ~Verify(raw, key, time) THEN Failure("InvalidToken")
  ELSE Identity(Decode(raw).sub, raw)

\* authMiddleware as it would be if it answered a missing token with
\* another status than the other failures.
authMiddlewareTelling(res) ==
  IF res.kind = "identity" THEN "next"
  ELSE IF res.kind = "MissingToken" THEN "400 Bad Request"
  ELSE "401 Unauthorized"

\* Lines 95-100: next() after a result, which is then req.user, and the
\* answer 401 Unauthorized after any throw.
authMiddleware(res) ==
  IF res.kind = "identity" THEN "next" ELSE "401 Unauthorized"

NoReply == "none"

\* ------------------------------------------------------------------ issuer

\* The answers of GET /.well-known/jwks.json: a status, whether the body
\* parses as JSON, and the key records of the body.
NoResponse == [status |-> 0, json |-> FALSE, keys |-> {}]
HttpError == [status |-> 500, json |-> FALSE, keys |-> {}]
BadBody == [status |-> 200, json |-> FALSE, keys |-> {}]
Jwks(keys) == [status |-> 200, json |-> TRUE, keys |-> keys]

\* A key record JWK.asKey cannot import.
BadJwk == [kid |-> "bad", x |-> "-"]

\* JWK.asKey(key) throws on a record that is no key.
Importable(jwk) == jwk \in AllKeys

Answers(keys) == {HttpError, BadBody, Jwks(keys), Jwks(keys \cup {BadJwk})}

\* ------------------------------------------------------------------ state

VARIABLES
  keyStore,         \* this.keyStore, the keys of the JWKS.KeyStore
  keyStoreUpdated,  \* this.keyStoreUpdated
  clock,            \* Date.now() / 1000
  published,        \* the key set the issuer serves
  publishedAt,      \* when the issuer published each key
  replaced,         \* the answer and the start of the last refresh that stored
  pc,               \* where each request stands
  hdr,              \* req.headers.authorization
  token,            \* token of authenticate, rawJwtToken of getKey
  now,              \* now of refreshKeyStore
  publicKeys,       \* the issuer's answer, publicKeys of refreshKeyStore
  key,              \* key of authenticate
  result,           \* what authenticate settled with
  fetches,          \* the calls of fetch the request made
  reply             \* what the middleware did with the request

store == <<keyStore, keyStoreUpdated, replaced>>
world == <<clock, published, publishedAt>>
locals == <<pc, hdr, token, now, publicKeys, key, result, fetches, reply>>
vars == <<keyStore, keyStoreUpdated, clock, published, publishedAt, replaced,
          pc, hdr, token, now, publicKeys, key, result, fetches, reply>>

\* Lines 163-168: an empty key store, never refreshed.
Init ==
  /\ keyStore = {}
  /\ keyStoreUpdated = 0
  /\ replaced = [keys |-> {}, at |-> 0]
  /\ clock = 1
  /\ published = {KeyOf("k1")}
  /\ publishedAt = [k \in Kids |-> 0]
  /\ pc = [c \in Calls |-> "idle"]
  /\ hdr = [c \in Calls |-> Undefined]
  /\ token = [c \in Calls |-> NullToken]
  /\ now = [c \in Calls |-> 0]
  /\ publicKeys = [c \in Calls |-> NoResponse]
  /\ key = [c \in Calls |-> NoKey]
  /\ result = [c \in Calls |-> NoResult]
  /\ fetches = [c \in Calls |-> 0]
  /\ reply = [c \in Calls |-> NoReply]

\* The request is over: authenticate settled, its locals are gone, and the
\* middleware answered.
Settle(c, k, res) ==
  /\ pc' = [pc EXCEPT ![c] = "done"]
  /\ key' = [key EXCEPT ![c] = k]
  /\ result' = [result EXCEPT ![c] = res]
  /\ reply' = [reply EXCEPT ![c] = authMiddleware(res)]
  /\ now' = [now EXCEPT ![c] = 0]
  /\ publicKeys' = [publicKeys EXCEPT ![c] = NoResponse]

\* NeedsRefresh as it would be without the lookup of line 233.
NeedsRefreshKnownToo(t, ks, updated) == t.iat # 0 /\ t.iat > updated

\* NeedsRefresh as it would be without the iat comparison of line 235.
NeedsRefreshAnyIat(t, ks, updated) == Get(ks, t.kid) = NoKey

\* Lines 232-236: the kid is unknown and the token was issued after the
\* last refresh (an iat of 0 is falsy).
NeedsRefresh(t, ks, updated) ==
  /\ Get(ks, t.kid) = NoKey
  /\ t.iat # 0
  /\ t.iat > updated

\* authMiddleware calls identity.authenticate(req.headers.authorization),
\* which runs to its first await: getBearerToken, JWT.decode, the lookup
\* and, when a refresh is due, refreshKeyStore and listPublicKeys up to
\* the fetch.  Without a refresh the request is settled at once.
Authenticate(c, h) ==
  LET raw == getBearerToken(h)
  IN  /\ pc[c] = "idle"
      /\ hdr' = [hdr EXCEPT ![c] = h]
      /\ token' = [token EXCEPT ![c] = raw]
      /\ UNCHANGED <<store, world>>
      /\ IF raw = NullToken
         THEN /\ Settle(c, NoKey, Failure("MissingToken"))
              /\ UNCHANGED fetches
         ELSE IF ~Decodable(raw)
         THEN /\ Settle(c, NoKey, Failure("MalformedToken"))
              /\ UNCHANGED fetches
         ELSE IF NeedsRefresh(Decode(raw), keyStore, keyStoreUpdated)
         THEN /\ pc' = [pc EXCEPT ![c] = "fetching"]
              /\ now' = [now EXCEPT ![c] = clock]
              /\ fetches' = [fetches EXCEPT ![c] = @ + 1]
              /\ UNCHANGED <<publicKeys, key, result, reply>>
         ELSE /\ Settle(c, Get(keyStore, Decode(raw).kid),
                        Outcome(raw, Get(keyStore, Decode(raw).kid), clock))
              /\ UNCHANGED fetches

\* The issuer answers the request of line 251 with the keys it serves at
\* that moment, or with an error; the answer is then on its way.
Respond(c) ==
  /\ pc[c] = "fetching"
  /\ \E r \in Answers(published) :
       publicKeys' = [publicKeys EXCEPT ![c] = r]
  /\ pc' = [pc EXCEPT ![c] = "answered"]
  /\ UNCHANGED <<store, world, hdr, token, now, key, result, fetches, reply>>

\* Usable as it would be if records that fail to import were skipped.
UsableSkippingBad(r) == r.status = 200 /\ r.json

\* Lines 253-259 and 271: the status is ok, the body parses and JWK.asKey
\* imports every record; otherwise one of them throws.
Usable(r) == r.status = 200 /\ r.json /\ \A j \in r.keys : Importable(j)

\* Replace as it would be if the new keys were added to the old store.
ReplaceAdding(c) ==
  /\ keyStore' = keyStore \cup {j \in publicKeys[c].keys : Importable(j)}
  /\ keyStoreUpdated' = now[c]

\* Replace as it would be if the later of the two times were kept.
ReplaceKeepingNewer(c) ==
  /\ keyStore' = {j \in publicKeys[c].keys : Importable(j)}
  /\ keyStoreUpdated' =
       IF now[c] > keyStoreUpdated THEN now[c] ELSE keyStoreUpdated

\* Replace as it would be if a refresh that began before the one stored
\* last were dropped.
ReplaceUnlessOlder(c) ==
  IF now[c] < keyStoreUpdated
  THEN UNCHANGED <<keyStore, keyStoreUpdated>>
  ELSE /\ keyStore' = {j \in publicKeys[c].keys : Importable(j)}
       /\ keyStoreUpdated' = now[c]

\* Replace as it would be if keyStoreUpdated were the time the refresh
\* ended, not the time it began.
ReplaceStampingEnd(c) ==
  /\ keyStore' = {j \in publicKeys[c].keys : Importable(j)}
  /\ keyStoreUpdated' = clock

\* Lines 270-273: the key store built from the imported records and the
\* time the refresh began, assigned in one turn of the event loop.
Replace(c) ==
  /\ keyStore' = {j \in publicKeys[c].keys : Importable(j)}
  /\ keyStoreUpdated' = now[c]

\* Refresh as it would be if keyStoreUpdated were assigned before the fetch
\* was known to have succeeded.
RefreshStampingFirst(c) ==
  /\ pc[c] = "answered"
  /\ UNCHANGED <<world, hdr, token, fetches>>
  /\ IF Usable(publicKeys[c])
     THEN /\ Replace(c)
          /\ replaced' = [keys |-> publicKeys[c].keys, at |-> now[c]]
          /\ pc' = [pc EXCEPT ![c] = "refreshed"]
          /\ UNCHANGED <<now, publicKeys, key, result, reply>>
     ELSE /\ Settle(c, NoKey, Failure("FetchError"))
          /\ keyStoreUpdated' = now[c]
          /\ UNCHANGED <<keyStore, replaced>>

\* The answer arrives and refreshKeyStore resumes after line 269.  A status
\* that is not ok, a body that does not parse and a record JWK.asKey
\* rejects all throw before line 270 assigns, and the error leaves
\* refreshKeyStore, getKey and authenticate.
Refresh(c) ==
  /\ pc[c] = "answered"
  /\ UNCHANGED <<world, hdr, token, fetches>>
  /\ IF Usable(publicKeys[c])
     THEN /\ Replace(c)
          /\ replaced' = [keys |-> publicKeys[c].keys, at |-> now[c]]
          /\ pc' = [pc EXCEPT ![c] = "refreshed"]
          /\ UNCHANGED <<now, publicKeys, key, result, reply>>
     ELSE /\ Settle(c, NoKey, Failure("FetchError"))
          /\ UNCHANGED store

\* Finish as it would be if a kid still unknown were fetched again.
FinishRetrying(c) ==
  /\ pc[c] = "refreshed"
  /\ IF NeedsRefresh(Decode(token[c]), keyStore, 0)
     THEN /\ pc' = [pc EXCEPT ![c] = "fetching"]
          /\ now' = [now EXCEPT ![c] = clock]
          /\ fetches' = [fetches EXCEPT ![c] = @ + 1]
          /\ UNCHANGED <<publicKeys, key, result, reply>>
     ELSE /\ Settle(c, Get(keyStore, Decode(token[c]).kid),
                    Outcome(token[c], Get(keyStore, Decode(token[c]).kid),
                            clock))
          /\ UNCHANGED fetches
  /\ UNCHANGED <<store, world, hdr, token>>

\* getKey resumes after line 237: the lookup of line 239, then lines
\* 186-203 and the middleware.
Finish(c) ==
  /\ pc[c] = "refreshed"
  /\ Settle(c, Get(keyStore, Decode(token[c]).kid),
            Outcome(token[c], Get(keyStore, Decode(token[c]).kid), clock))
  /\ UNCHANGED <<store, world, hdr, token, fetches>>

\* The request is gone; its slot serves the next one.
Return(c) ==
  /\ pc[c] = "done"
  /\ pc' = [pc EXCEPT ![c] = "idle"]
  /\ hdr' = [hdr EXCEPT ![c] = Undefined]
  /\ token' = [token EXCEPT ![c] = NullToken]
  /\ now' = [now EXCEPT ![c] = 0]
  /\ publicKeys' = [publicKeys EXCEPT ![c] = NoResponse]
  /\ key' = [key EXCEPT ![c] = NoKey]
  /\ result' = [result EXCEPT ![c] = NoResult]
  /\ fetches' = [fetches EXCEPT ![c] = 0]
  /\ reply' = [reply EXCEPT ![c] = NoReply]
  /\ UNCHANGED <<store, world>>

\* A second passes.
Tick ==
  /\ clock < MaxTime
  /\ clock' = clock + 1
  /\ UNCHANGED <<store, published, publishedAt, locals>>

\* The issuer rotates its keys: it publishes the next key beside the
\* current one, then withdraws the old one.  The first key was published
\* before the client started.
Rotate ==
  /\ \/ /\ published = {KeyOf("k1")}
        /\ published' = {KeyOf("k1"), KeyOf("k2")}
        /\ publishedAt' = [publishedAt EXCEPT !["k2"] = clock]
     \/ /\ published = {KeyOf("k1"), KeyOf("k2")}
        /\ published' = {KeyOf("k2")}
        /\ UNCHANGED publishedAt
  /\ UNCHANGED <<store, clock, locals>>

\* The headers of concurrent requests: none, or the Bearer scheme with a
\* sound token or with text that is no token.
Headers ==
  {Undefined}
    \cup {Str(<<Word("Bearer"), Ws, JwtUnit(t)>>) : t \in SoundTokens}
    \cup {Str(<<Word("Bearer"), Ws, Junk>>)}

Next ==
  \/ \E c \in Calls, h \in Headers : Authenticate(c, h)
  \/ \E c \in Calls : Respond(c)
  \/ \E c \in Calls : Refresh(c)
  \/ \E c \in Calls : Finish(c)
  \/ \E c \in Calls : Return(c)
  \/ Tick
  \/ Rotate

One == "c1"

\* The headers of requests served one at a time: none, a value that is no
\* string, or the Bearer scheme with any token or with text that is none.
HeadersOne ==
  {Undefined, NonString}
    \cup {Str(<<Word("Bearer"), Ws, JwtUnit(t)>>) : t \in Tokens}
    \cup {Str(<<Word("Bearer"), Ws, Junk>>)}

NextOne ==
  \/ \E h \in HeadersOne : Authenticate(One, h)
  \/ Respond(One)
  \/ Refresh(One)
  \/ Finish(One)
  \/ Return(One)
  \/ Tick
  \/ Rotate

\* Requests served one at a time, over every token.
SpecOne == Init /\ [][NextOne]_vars

\* Requests served one at a time, where the event loop runs every
\* continuation that is ready: the rest of the refresh once the answer is
\* there, the rest of the request once the refresh stored, the next request
\* once the slot is free; and time passes.  Nothing makes the issuer
\* answer.
SpecOneFair ==
  /\ SpecOne
  /\ WF_vars(Refresh(One))
  /\ WF_vars(Finish(One))
  /\ WF_vars(Return(One))
  /\ WF_vars(Tick)

\* The units of the header strings: the scheme in two letter cases, another
\* scheme, whitespace, text that is no token, and one sound token.
HdrUnits ==
  {Word("Bearer"), Word("bearer"), Word("Basic"), Ws, Junk,
   JwtUnit(CHOOSE t \in SoundTokens : t.kid = "k1" /\ t.iat = 1)}

RECURSIVE SeqsUpTo(_, _)
SeqsUpTo(S, n) ==
  IF n = 0 THEN {<<>>}
  ELSE LET shorter == SeqsUpTo(S, n - 1)
       IN  shorter \cup {Append(q, x) : q \in shorter, x \in S}

\* Every header value: none, a value that is no string, and every string
\* of at most MaxHdrLen units.
HeadersAny ==
  {Undefined, NonString} \cup {Str(q) : q \in SeqsUpTo(HdrUnits, MaxHdrLen)}

NextHdr ==
  \/ \E h \in HeadersAny : Authenticate(One, h)
  \/ Respond(One)
  \/ Refresh(One)
  \/ Finish(One)
  \/ Return(One)

\* Requests served one at a time, over every header value, while the
\* clock and the issuer stand still.
SpecHdr == Init /\ [][NextHdr]_vars

\* Requests served concurrently.
Spec == Init /\ [][Next]_vars

\* ------------------------------------------------------------------ claims

Done(c) == pc[c] = "done"

\* The request c begins in this step.
Begins(c) == pc[c] = "idle" /\ pc'[c] # "idle"

\* The store holds a key under the kid.
Known(kid) == \E k \in keyStore : k.kid = kid

\* C1: authenticate returns an identity only for a token that passed
\* verification: its kid was resolved to a key of the store, its ES256
\* signature was made with that key, its aud is 'backstage' and its iss is
\* the configured issuer.  A token that fails one of these, a wrong aud or
\* iss under a valid signature included, never yields an identity.
C1_IdentityOnlyIfVerified ==
  \A c \in Calls :
    result[c].kind = "identity" =>
      /\ Decodable(token[c])
      /\ key[c] \in keyStore
      /\ key[c].kid = Decode(token[c]).kid
      /\ Decode(token[c]).alg = "ES256"
      /\ Decode(token[c]).sig = key[c].x
      /\ Decode(token[c]).aud = "backstage"
      /\ Decode(token[c]).iss = Issuer

\* An identity was returned for a token whose key had to be fetched.
C1_Witness ==
  \E c \in Calls : result[c].kind = "identity" /\ fetches[c] = 1

\* C2: for a valid token (signature and claims) whose signing key is in
\* the store, authenticate returns at once the identity whose id is the
\* token's sub and whose idToken is the token string taken from the header.
C2_ValidTokenYieldsIdentity ==
  [][\A c \in Calls :
       (/\ Begins(c)
        /\ Decodable(token'[c])
        /\ Defects(Decode(token'[c])) \subseteq {"exp"}
        /\ Decode(token'[c]).exp > clock
        /\ KeyOf(Decode(token'[c]).kid) \in keyStore)
       => /\ Done(c)'
          /\ result'[c].kind = "identity"
          /\ result'[c].id = Decode(token'[c]).sub
          /\ result'[c].idToken = getBearerToken(hdr'[c])]_vars

\* A valid token was accepted with its key already in the store.
C2_Witness ==
  \E c \in Calls :
    /\ result[c].kind = "identity"
    /\ fetches[c] = 0
    /\ result[c].id = Decode(token[c]).sub
    /\ hdr[c] = Str(<<Word("Bearer"), Ws, JwtUnit(Decode(token[c]))>>)

\* C3: a token whose kid is not in the store and whose iat is at most
\* keyStoreUpdated fails with UnknownKey without a fetch, whatever the
\* store holds.
C3_OldUnknownKidNoFetch ==
  [][\A c \in Calls :
       (/\ Begins(c)
        /\ Decodable(token'[c])
        /\ ~Known(Decode(token'[c]).kid)
        /\ Decode(token'[c]).iat <= keyStoreUpdated)
       => /\ Done(c)'
          /\ result'[c].kind = "UnknownKey"
          /\ fetches'[c] = 0
          /\ UNCHANGED <<keyStore, keyStoreUpdated>>]_vars

\* After a refresh, a token issued before it under a kid the store lacks
\* was turned away without a fetch.
C3_Witness ==
  \E c \in Calls :
    /\ Done(c)
    /\ result[c].kind = "UnknownKey"
    /\ fetches[c] = 0
    /\ keyStore # {}
    /\ ~Known(Decode(token[c]).kid)
    /\ Decode(token[c]).iat > 0
    /\ Decode(token[c]).iat <= keyStoreUpdated

\* The token of c is sound at this time: every check of Verify passes under
\* the key the issuer made for its kid.
ValidNow(c) ==
  /\ Defects(Decode(token[c])) \subseteq {"exp"}
  /\ Decode(token[c]).exp > clock

\* C4: a token whose kid is not in the store and whose iat is greater than
\* keyStoreUpdated triggers exactly one fetch; when the answer holds the
\* matching key the otherwise valid token is accepted, and when it does not
\* the request fails with UnknownKey.
C4_FetchedKeyDecides ==
  [][\A c \in Calls :
       /\ (/\ Begins(c)
           /\ Decodable(token'[c])
           /\ ~Known(Decode(token'[c]).kid)
           /\ Decode(token'[c]).iat > keyStoreUpdated)
          => (pc'[c] = "fetching" /\ fetches'[c] = 1)
       /\ (pc[c] = "refreshed" /\ Done(c)' /\ ValidNow(c))
          => /\ fetches'[c] = 1
             /\ IF KeyOf(Decode(token[c]).kid) \in publicKeys[c].keys
                THEN result'[c].kind = "identity"
                ELSE result'[c].kind = "UnknownKey"]_vars

\* C5: the store is always one whole snapshot: the empty store of the
\* constructor with keyStoreUpdated 0, or exactly the keys of one usable
\* answer with the time at which that same refresh began, under every
\* interleaving of requests and refreshes.
C5_StoreIsOneSnapshot ==
  /\ keyStore = replaced.keys
  /\ keyStoreUpdated = replaced.at
  /\ \/ replaced = [keys |-> {}, at |-> 0]
     \/ replaced.at \in 1 .. clock /\ replaced.keys \subseteq AllKeys

\* A refresh has stored its snapshot while another request holds an answer
\* with other keys, fetched at another time.
C5_Witness ==
  \E c, d \in Calls :
    /\ pc[c] = "refreshed"
    /\ pc[d] = "answered"
    /\ Usable(publicKeys[d])
    /\ keyStore # {}
    /\ publicKeys[d].keys # keyStore
    /\ now[d] # keyStoreUpdated

\* The header carries the Bearer scheme: the scheme word in any case, then
\* whitespace, then a token.
SkipWs(s) == IF s # <<>> /\ IsWs(Head(s)) THEN Tail(s) ELSE s

IsBearerHeader(h) ==
  /\ h.type = "string"
  /\ LET s == SkipWs(SkipWs(SkipWs(SkipWs(h.s))))
     IN  /\ Len(s) >= 3
         /\ IsBearer(s[1])
         /\ IsWs(s[2])
         /\ \E j \in 3 .. Len(s) : ~IsWs(s[j])

\* C6: every header that is not `Bearer <token>`: a missing header, a value
\* that is no string, another scheme name, an empty token: fails with
\* MissingToken, before any lookup or fetch.
C6_OtherHeadersAreMissingToken ==
  \A c \in Calls :
    (Done(c) /\ ~IsBearerHeader(hdr[c]))
      => /\ result[c].kind = "MissingToken"
         /\ key[c] = NoKey
         /\ fetches[c] = 0

\* C7: a request fetches at most once: after the refresh and the second
\* lookup it neither fetches nor retries, whatever the fetch gave; a fetch
\* that fails ends the request as a failure, answered 401.
C7_AtMostOneFetch ==
  [][\A c \in Calls :
       /\ fetches'[c] <= 1
       /\ (pc[c] \in {"answered", "refreshed"} /\ pc'[c] # pc[c])
          => (pc'[c] \in {"refreshed", "done"} /\ fetches'[c] = fetches[c])
       /\ (pc[c] = "refreshed" /\ pc'[c] # pc[c]) => Done(c)'
       /\ result'[c].kind = "FetchError"
          => (Done(c)' /\ fetches'[c] = 1 /\ reply'[c] = "401 Unauthorized")]_vars

\* A request ended on a failed fetch, and another ended with its kid still
\* unknown after its one fetch.
C7_Witness ==
  \E c, d \in Calls :
    /\ Done(c) /\ result[c].kind = "FetchError" /\ fetches[c] = 1
    /\ Done(d) /\ result[d].kind = "UnknownKey" /\ fetches[d] = 1

\* The answer cannot be used: the status is not ok, the body does not
\* parse, or one of its records is no key.
Failed(r) ==
  r.status # 200 \/ ~r.json \/ \E j \in r.keys : j \notin AllKeys

\* C8: a refresh that fails stores nothing: on a status that is not ok, a
\* body that does not parse or a key set with one record that is no key,
\* keyStore and keyStoreUpdated stay as they were and the request fails.
C8_FailedRefreshStoresNothing ==
  [][\A c \in Calls :
       (pc[c] = "answered" /\ pc'[c] # "answered" /\ Failed(publicKeys[c]))
         => /\ UNCHANGED <<keyStore, keyStoreUpdated>>
            /\ Done(c)'
            /\ result'[c].kind = "FetchError"]_vars

\* A fetch failed while the issuer served keys, and the store is still the
\* empty one of the constructor.
C8_Witness ==
  \E c \in Calls :
    /\ Done(c)
    /\ result[c].kind = "FetchError"
    /\ published # {}
    /\ keyStore = {}
    /\ keyStoreUpdated = 0

\* C9: authenticate twice with the same valid token and the store as the
\* first call left it (so the key it used is still there): the second call
\* returns the same identity at once, fetches nothing and leaves keyStore
\* and keyStoreUpdated alone.
C9_SecondCallSame ==
  [][\A c, d \in Calls :
       (/\ c # d
        /\ Done(d)
        /\ result[d].kind = "identity"
        /\ key[d] \in keyStore
        /\ ValidNow(d)
        /\ Begins(c)
        /\ hdr'[c] = hdr[d])
       => /\ Done(c)'
          /\ result'[c] = result[d]
          /\ fetches'[c] = 0
          /\ UNCHANGED <<keyStore, keyStoreUpdated>>]_vars

\* The same token was accepted twice, the first time after a fetch and the
\* second time without one, although it is newer than the store.
C9_Witness ==
  \E c, d \in Calls :
    /\ c # d
    /\ Done(c) /\ Done(d)
    /\ hdr[c] = hdr[d]
    /\ result[c].kind = "identity"
    /\ result[c] = result[d]
    /\ fetches[d] = 1
    /\ fetches[c] = 0
    /\ Decode(token[c]).iat > keyStoreUpdated

\* The token of c is sound but for its signature.
Tampered(c) ==
  Decodable(token[c]) /\ Defects(Decode(token[c])) = {"sig"}

\* C10 as stated: a token with a tampered signature and otherwise correct
\* header and claims fails with InvalidToken whether or not its kid is in
\* the store.
C10_TamperedIsInvalidToken ==
  \A c \in Calls :
    (Done(c) /\ Tampered(c)) => result[c].kind = "InvalidToken"

\* C10 amended: a token with a tampered signature never yields an identity:
\* it fails with InvalidToken when its kid resolved to a key, at once or
\* after the refresh, and with UnknownKey, or the error of the fetch, when
\* it did not.
C10_TamperedNeverAccepted ==
  \A c \in Calls :
    (Done(c) /\ Tampered(c))
      => IF key[c] # NoKey
         THEN result[c].kind = "InvalidToken"
         ELSE result[c].kind \in {"UnknownKey", "FetchError"}

\* A tampered token was turned away as invalid after its key was fetched.
C10_Witness ==
  \E c \in Calls :
    /\ Done(c)
    /\ Tampered(c)
    /\ result[c].kind = "InvalidToken"
    /\ fetches[c] = 1

\* The classes of failure of authenticate.
FailureKinds ==
  {"MissingToken", "MalformedToken", "UnknownKey", "FetchError",
   "InvalidToken"}

\* C12: every failure of authenticate, whatever its class, is answered
\* with 401 and the body 'Unauthorized' and next() is not called, so
\* failures of different classes look alike; next() is called, with the
\* identity as req.user, only when authenticate returned one.
C12_FailuresAllUnauthorized ==
  \A c \in Calls :
    /\ Done(c) => result[c].kind \in FailureKinds \cup {"identity"}
    /\ (Done(c) /\ result[c].kind \in FailureKinds)
         => reply[c] = "401 Unauthorized"
    /\ reply[c] = "next" => (Done(c) /\ result[c].kind = "identity")
    /\ ~Done(c) => reply[c] = NoReply

\* A token whose key was fetched failed verification and was answered 401.
C12_Witness ==
  \E c \in Calls :
    /\ Done(c)
    /\ result[c].kind = "InvalidToken"
    /\ fetches[c] = 1
    /\ reply[c] = "401 Unauthorized"

\* The string is a token in the header but not one well-formed compact JWT.
Malformed(raw) == raw # NullToken /\ ~(Len(raw) = 1 /\ raw[1].u = "jwt")

\* C15: a token that cannot be decoded into header and payload makes
\* authenticate fail with MalformedToken at once: no key is looked up,
\* nothing is fetched, and keyStore and keyStoreUpdated stay as they were.
C15_MalformedFailsFirst ==
  [][\A c \in Calls :
       (Begins(c) /\ Malformed(token'[c]))
         => /\ Done(c)'
            /\ result'[c].kind = "MalformedToken"
            /\ key'[c] = NoKey
            /\ fetches'[c] = 0
            /\ UNCHANGED <<keyStore, keyStoreUpdated>>]_vars

\* A well-formed token followed by other text was turned away as malformed
\* while the store held keys.
C15_Witness ==
  \E c \in Calls :
    /\ Done(c)
    /\ Len(token[c]) = 2
    /\ token[c][1].u = "jwt"
    /\ result[c].kind = "MalformedToken"
    /\ fetches[c] = 0
    /\ keyStore # {}

\* C16: the store starts empty with keyStoreUpdated 0, and the only step
\* that changes keyStore or keyStoreUpdated is the one in which a request
\* stores the usable answer of its fetch; parsing the header, decoding,
\* the lookup, verification, the fetch itself, a failed refresh and every
\* other step of a request leave both alone.
C16_OnlyReplaceChangesStore ==
  /\ keyStore = {} /\ keyStoreUpdated = 0
  /\ [][(keyStore' # keyStore \/ keyStoreUpdated' # keyStoreUpdated)
          => \E c \in Calls :
               /\ pc[c] = "answered"
               /\ pc'[c] = "refreshed"
               /\ publicKeys[c].status = 200
               /\ publicKeys[c].json
               /\ publicKeys[c].keys \subseteq AllKeys
               /\ keyStore' = publicKeys[c].keys
               /\ keyStoreUpdated' = now[c]]_vars

\* After a refresh stored keys, a request was accepted without a fetch, one
\* failed on its fetch, and the store is still what that refresh stored.
C16_Witness ==
  \E c, d \in Calls :
    /\ Done(c) /\ result[c].kind = "FetchError"
    /\ Done(d) /\ result[d].kind = "identity" /\ fetches[d] = 0
    /\ keyStore # {}
    /\ keyStore = replaced.keys
    /\ keyStoreUpdated = replaced.at

\* The request c stores the answer of its fetch in this step.
Stores(c) == pc[c] = "answered" /\ pc'[c] = "refreshed"

\* No refresh is in flight.
AllRefreshesOver == \A c \in Calls : pc[c] \notin {"fetching", "answered"}

\* C13: when the refreshes of concurrent requests race, the last to store
\* wins: `replaced` is the answer and the beginning of the refresh that
\* stored last, and once no refresh is in flight keyStore and
\* keyStoreUpdated are exactly those, in whatever order the fetches began.
C13_LastReplaceWins ==
  [][/\ \A c \in Calls :
          Stores(c)
            => replaced' = [keys |-> publicKeys[c].keys, at |-> now[c]]
     /\ (\A c \in Calls : ~Stores(c)) => replaced' = replaced
     /\ AllRefreshesOver'
          => /\ keyStore' = replaced'.keys
             /\ keyStoreUpdated' = replaced'.at]_vars

\* Two refreshes raced, the one that began first stored last, and the
\* store holds its keys and its beginning, not those of the other.
C13_Witness ==
  \E c, d \in Calls :
    /\ pc[c] = "refreshed"
    /\ pc[d] = "refreshed"
    /\ now[c] < now[d]
    /\ publicKeys[c].keys # publicKeys[d].keys
    /\ keyStore = publicKeys[c].keys
    /\ keyStoreUpdated = now[c]

\* C18 as stated: keyStoreUpdated never decreases, also when two refreshes
\* that began at different times complete in the opposite order.
C18_NeverDecreases ==
  [][keyStoreUpdated' >= keyStoreUpdated]_vars

\* C18 amended: every refresh that stores sets keyStoreUpdated to the time
\* at which it began, never later than the clock; keyStoreUpdated
\* decreases only when a refresh stores after one that began later than
\* it did, and then it falls back to the earlier beginning.
C18_StampIsOwnStart ==
  [][/\ \A c \in Calls : Stores(c) => keyStoreUpdated' = now[c]
     /\ keyStoreUpdated' <= clock'
     /\ keyStoreUpdated' < keyStoreUpdated
          => \E c \in Calls :
               /\ Stores(c)
               /\ now[c] < replaced.at
               /\ keyStoreUpdated' = now[c]]_vars

\* Two refreshes have stored and the later beginning was overwritten by
\* the earlier one.
C18_Witness ==
  \E c, d \in Calls :
    /\ pc[c] = "refreshed"
    /\ pc[d] = "refreshed"
    /\ now[c] < now[d]
    /\ keyStoreUpdated = now[c]

\* C19: the lookup a request runs after its own refresh stored reads the
\* keys that refresh stored, also while the refreshes of other requests
\* are in flight: a request whose own answer held the key of its kid is
\* never failed with UnknownKey because another refresh replaced the
\* store in between.
C19_RelookupReadsOwnSnapshot ==
  [][\A c \in Calls :
       (pc[c] = "refreshed" /\ Done(c)')
         => /\ key'[c] = Get(publicKeys[c].keys, Decode(token[c]).kid)
            /\ KeyOf(Decode(token[c]).kid) \in publicKeys[c].keys
                 => result'[c].kind # "UnknownKey"]_vars

\* C11: every request that starts a fetch completes, with an identity or a
\* failure, also when the issuer never answers, because the fetch is
\* bounded by a time limit that fails the request.
C11_FetchingCompletes ==
  \A c \in Calls : (pc[c] = "fetching") ~> Done(c)

\* The issuer published the key before the second in which the refresh
\* stored last began, and has not withdrawn it.  (The clock is read in
\* whole seconds: of a key published in that very second the model cannot
\* tell whether it was published before the refresh began.)
PublishedBeforeRefresh(k) ==
  k \in published /\ publishedAt[k.kid] < keyStoreUpdated

\* C17: keyStoreUpdated is the time the stored refresh began, so in every
\* reachable state, also after racing refreshes stored in any order, every
\* key the issuer published before keyStoreUpdated and has not withdrawn
\* since is in keyStore; hence a request turned away without a fetch, its
\* kid unknown and its iat at most keyStoreUpdated, never carries a token
\* signed with such a key.
C17_KeysBeforeRefreshAreStored ==
  /\ \A k \in AllKeys : PublishedBeforeRefresh(k) => k \in keyStore
  /\ [][/\ \A k \in AllKeys : PublishedBeforeRefresh(k)' => k \in keyStore'
        /\ \A c \in Calls :
             (/\ Begins(c)
              /\ result'[c].kind = "UnknownKey"
              /\ fetches'[c] = 0)
             => /\ Decode(token'[c]).iat <= keyStoreUpdated
                /\ ~PublishedBeforeRefresh(KeyOf(Decode(token'[c]).kid))]_vars

\* The store holds the key published before its refresh began, the
\* withdrawn key is gone from it, and a token under the withdrawn key, not
\* issued after the refresh began, was turned away without a fetch.
C17_Witness ==
  \E c \in Calls :
    /\ PublishedBeforeRefresh(KeyOf("k2"))
    /\ keyStore = {KeyOf("k2")}
    /\ publishedAt["k2"] > 0
    /\ Done(c)
    /\ Decodable(token[c])
    /\ Decode(token[c]).kid = "k1"
    /\ Decode(token[c]).iat > 0
    /\ result[c].kind = "UnknownKey"
    /\ fetches[c] = 0

\* The request c begins in this step with a sound token, signed with a key
\* the issuer serves and issued since that key was published.
PresentsCurrent(c) ==
  /\ Begins(c)
  /\ Decodable(token'[c])
  /\ Defects(Decode(token'[c])) = {}
  /\ KeyOf(Decode(token'[c]).kid) \in published
  /\ Decode(token'[c]).iat >= 1
  /\ Decode(token'[c]).iat >= publishedAt[Decode(token'[c]).kid]

\* C14: whatever the order in which racing refreshes stored, a stale store
\* is repaired: once no refresh is in flight, a sound token signed with a
\* key the issuer serves, issued since that key was published, is accepted
\* or starts the refresh that brings its key, so that with a steady issuer
\* and fetches that succeed it is accepted in the end.
C14_StaleStoreIsRepaired ==
  [][\A c \in Calls :
       (PresentsCurrent(c) /\ AllRefreshesOver)
         => \/ result'[c].kind = "identity"
            \/ pc'[c] = "fetching"]_vars

====
